---- MODULE Spec2Model ----
(***************************************************************************)
(* A model of climark: the test generator (cli.py) and the documentation   *)
(* generator (markd.py).  Both walk a project directory, send every .py    *)
(* file to a language model, strip code fences from the answer and write   *)
(* the result under tests/ or docs/.                                       *)
(*                                                                         *)
(* Two specifications are given.  SpecClean applies the sanitizer          *)
(* clean_code to every text of bounded length.  Spec runs the command line *)
(* tools on small project trees, with the traversal order, the outcome of  *)
(* every read, model call and write chosen nondeterministically.  In Spec  *)
(* the answer of the model is not a text but a block that names what it    *)
(* is about; clean_code does not change which block it is.                 *)
(*                                                                         *)
(* os.walk lists a directory when it enters it, the root first; the order  *)
(* of the entries of a listing is up to the file system, so the next file  *)
(* and the next sub-directory are picked arbitrarily.  A process is one    *)
(* call of main(); processes follow one another on the same file system.   *)
(***************************************************************************)
EXTENDS Integers, Sequences, FiniteSets, TLC

VARIABLES
    text,       \* SpecClean: the raw model output handed to clean_code
    once,       \* SpecClean: clean_code(text)
    twice,      \* SpecClean: clean_code(clean_code(text))
    cpc,        \* SpecClean: "in", "once" or "twice"
    fs,         \* the files under the project root: file -> content
    dirs,       \* the directories under the project root ("." is the root)
    pc,         \* "idle" (no process yet), "walk" (inside os.walk), "done"; "off" in SpecClean
    run,        \* the running (or last) process: its tool and command
    nruns,      \* number of processes started so far
    fs0,        \* fs when the current process started
    dirs0,      \* dirs when the current process started
    pending,    \* files of the current os.walk listing not yet iterated
    dirsLeft,   \* sub-directories os.walk has listed but not yet entered
    summary,    \* markd.py: project_summary
    log,        \* what the current process did: a bag of events
    faults,     \* number of reads, model calls, writes and subprocess starts
                \* that have failed so far
    exitStatus  \* exit status of the last finished process, -1 while running

cleanVars == <<text, once, twice, cpc>>
runVars == <<fs, dirs, pc, run, nruns, fs0, dirs0, pending, dirsLeft,
             summary, log, faults, exitStatus>>
vars == <<text, once, twice, cpc, fs, dirs, pc, run, nruns, fs0, dirs0,
          pending, dirsLeft, summary, log, faults, exitStatus>>

(***************************************************************************)
(* Bounds.                                                                 *)
(***************************************************************************)
MaxLen == 5        \* longest text given to clean_code, in tokens
MaxRuns == 2       \* processes started in one behaviour
MaxFaults == 2     \* injected read / model / write failures in one behaviour

(***************************************************************************)
(* Text.  A text is a sequence of tokens: "x" is any character that is     *)
(* neither white space, a line boundary nor part of a fence; " " is a      *)
(* blank; "\n" and "\r" are line boundaries; "fence" is the run of three   *)
(* backquotes and "python" the word python, the two pieces fence markers   *)
(* are made of.                                                            *)
(***************************************************************************)
Alphabet == {"x", " ", "\n", "\r", "fence", "python"}

SeqsUpTo(S, n) == UNION {[1..k -> S] : k \in 0..n}

Texts == SeqsUpTo(Alphabet, MaxLen)

\* str.splitlines(): "\n", "\r" and "\r\n" end a line; the line boundaries are
\* dropped; no empty last line is produced after a final boundary.
RECURSIVE SplitFrom(_, _, _, _)
SplitFrom(t, i, cur, acc) ==
    IF i > Len(t) THEN (IF cur = <<>> THEN acc ELSE Append(acc, cur))
    ELSE IF t[i] = "\n" THEN SplitFrom(t, i + 1, <<>>, Append(acc, cur))
    ELSE IF t[i] = "\r" THEN
        IF i < Len(t) /\ t[i + 1] = "\n"
        THEN SplitFrom(t, i + 2, <<>>, Append(acc, cur))
        ELSE SplitFrom(t, i + 1, <<>>, Append(acc, cur))
    ELSE SplitFrom(t, i + 1, Append(cur, t[i]), acc)

splitlines(t) == SplitFrom(t, 1, <<>>, <<>>)

\* str.strip(): drops leading and trailing white space.
RECURSIVE LStrip(_)
LStrip(l) == IF l # <<>> /\ Head(l) = " " THEN LStrip(Tail(l)) ELSE l

RECURSIVE RStrip(_)
RStrip(l) ==
    IF l # <<>> /\ l[Len(l)] = " " THEN RStrip(SubSeq(l, 1, Len(l) - 1)) ELSE l

strip(l) == RStrip(LStrip(l))

\* "\n".join(lines)
RECURSIVE join(_)
join(lines) ==
    IF lines = <<>> THEN <<>>
    ELSE IF Len(lines) = 1 THEN lines[1]
    ELSE lines[1] \o <<"\n">> \o join(Tail(lines))

\* A plausible slip: the fence test by prefix instead of by equality.
IsFenceLinePrefix(line) ==
    strip(line) # <<>> /\ strip(line)[1] = "fence"

\* line.strip() in [fence + 'python', fence]
IsFenceLine(line) ==
    strip(line) \in {<<"fence", "python">>, <<"fence">>}

KeepLine(line) == ~IsFenceLine(line)

clean_code(t) == join(SelectSeq(splitlines(t), KeepLine))

(***************************************************************************)
(* SpecClean: clean_code on every text of at most MaxLen tokens.           *)
(***************************************************************************)
NoRun == [tool |-> "none", command |-> "none"]

InitRunIdle ==
    /\ fs = <<>>
    /\ dirs = {}
    /\ pc = "off"
    /\ run = NoRun
    /\ nruns = 0
    /\ fs0 = <<>>
    /\ dirs0 = {}
    /\ pending = {}
    /\ dirsLeft = {}
    /\ summary = <<>>
    /\ log = <<>>
    /\ faults = 0
    /\ exitStatus = -1

InitClean ==
    /\ text \in Texts
    /\ once = <<>>
    /\ twice = <<>>
    /\ cpc = "in"
    /\ InitRunIdle

CleanOnce ==
    /\ cpc = "in"
    /\ once' = clean_code(text)
    /\ cpc' = "once"
    /\ UNCHANGED <<text, twice>>
    /\ UNCHANGED runVars

CleanTwice ==
    /\ cpc = "once"
    /\ twice' = clean_code(once)
    /\ cpc' = "twice"
    /\ UNCHANGED <<text, once>>
    /\ UNCHANGED runVars

NextClean == CleanOnce \/ CleanTwice

SpecClean == InitClean /\ [][NextClean]_vars

(***************************************************************************)
(* Claims about the sanitizer.                                             *)
(***************************************************************************)
FenceMarkers == {<<"fence", "python">>, <<"fence">>}

NotMarker(line) == strip(line) \notin FenceMarkers

\* The pieces of t between its "\n" tokens, empty pieces included.
RECURSIVE PiecesFrom(_, _, _, _)
PiecesFrom(t, i, cur, acc) ==
    IF i > Len(t) THEN Append(acc, cur)
    ELSE IF t[i] = "\n" THEN PiecesFrom(t, i + 1, <<>>, Append(acc, cur))
    ELSE PiecesFrom(t, i + 1, Append(cur, t[i]), acc)

Pieces(t) == PiecesFrom(t, 1, <<>>, <<>>)

\* C1: applying the sanitizer twice yields the same text as applying it once.
C1_Idempotent == cpc = "twice" => twice = once

\* C2: the sanitizer's output consists of exactly the lines of the input whose
\* trimmed content is not a fence marker, each verbatim, in their order,
\* separated by single newlines; a fence followed by another annotation stays.
C2_RemovesExactlyFences ==
    cpc # "in" =>
        LET kept == SelectSeq(splitlines(text), NotMarker)
        IN  /\ kept = <<>> => once = <<>>
            /\ kept # <<>> => Pieces(once) = kept

\* C2 witness: an input with a fence line that is removed, an annotated fence
\* line that is kept and a blank-padded fence line that is removed.
C2_Witness ==
    /\ cpc = "once"
    /\ text = <<"fence", "x", "\n", " ", "fence">>
    /\ once = <<"fence", "x">>

(***************************************************************************)
(* The file system under the project path.  A file is a directory and a   *)
(* name; a name is a base name, an extension and the number of "test_"    *)
(* prefixes in front of the base name.  A content is a sequence of blocks. *)
(***************************************************************************)
Name(pre, base, ext) == [pre |-> pre, base |-> base, ext |-> ext]

File(d, pre, base, ext) == [dir |-> d, name |-> Name(pre, base, ext)]

Block(kind, name) == [kind |-> kind, name |-> name]

NoName == Name(0, "", "")

NoFile == File("", 0, "", "")

\* The files a project may hold before the first run: a text file in the
\* root and two modules of the same name in two packages.
Candidates ==
    { File(".", 0, "n", "txt"),
      File("pkg", 0, "a", "py"), File("lib", 0, "a", "py") }

SourceText(f) == <<Block("source", f.name)>>

\* os.path.exists(project_path) and os.path.exists(join(project_path, sub))
PathExistsAlways(sub) == TRUE

PathExists(sub) == "." \in dirs /\ sub \in dirs

\* One step of os.walk: the files of directory d (nothing if d cannot be listed).
ListFiles(d) == IF d \in dirs THEN {f \in DOMAIN fs : f.dir = d} ELSE {}

\* The sub-directories os.walk finds when it lists the root.
SubDirs == IF "." \in dirs THEN dirs \ {"."} ELSE {}

\* file.endswith(".py")
IsSourceAny(f) == TRUE

IsSource(f) == f.name.ext = "py"

\* save_test_cases: tests/test_<splitext(file_name)[0]>.py
TestFile(f) == File("tests", f.name.pre + 1, f.name.base, "py")

IniFile == File("tests", 0, "pytest", "ini")

DocFile == File("docs", 0, "project_documentation", "md")

\* fs with content c written to file f
Written(f, c) == [g \in DOMAIN fs \cup {f} |-> IF g = f THEN c ELSE fs[g]]

(***************************************************************************)
(* The log of a process: handler calls, visits of the traversal, reads,   *)
(* model calls, directory creations, writes, subprocesses, printed text    *)
(* and logger.error lines, as a bag of events (event -> number of times).  *)
(* A visit is marked "late" when a model call of the process had already   *)
(* failed when it took place.                                              *)
(***************************************************************************)
Ev(ev, what, f, ok, late) ==
    [ev |-> ev, what |-> what, f |-> f, ok |-> ok, late |-> late]

\* A model call of the running process has failed.
ModelFailed == \E e \in DOMAIN log : e.ev = "model" /\ ~e.ok

\* An event of the first step of a process, and one of a later step.
E0(ev, what, f, ok) == Ev(ev, what, f, ok, FALSE)

E(ev, what, f, ok) == Ev(ev, what, f, ok, ModelFailed)

NoEvents == [e \in {} |-> 0]

RECURSIVE Logged(_, _)
Logged(bag, events) ==
    IF events = <<>> THEN bag
    ELSE LET e == Head(events)
             more == [x \in DOMAIN bag \cup {e} |->
                        IF x = e
                        THEN (IF e \in DOMAIN bag THEN bag[e] + 1 ELSE 1)
                        ELSE bag[x]]
         IN  Logged(more, Tail(events))

RECURSIVE Total(_, _)
Total(bag, events) ==
    IF events = {} THEN 0
    ELSE LET e == CHOOSE x \in events : TRUE
         IN  bag[e] + Total(bag, events \ {e})

\* Number of logged events that satisfy Test.
CountIn(bag, Test(_)) == Total(bag, {e \in DOMAIN bag : Test(e)})

\* Number of failures among the outcomes a step draws.
Failures(outcomes) ==
    Cardinality({i \in 1..Len(outcomes) : ~outcomes[i]})

(***************************************************************************)
(* The command line.                                                       *)
(***************************************************************************)
Tools == {"cli", "markd"}

AllCommands == {"generate-tests", "validate-tests", "generate-docs"}

\* add_subparsers / add_parser: the commands each entry point registers
SubCommands(tool) ==
    IF tool = "cli" THEN {"generate-tests", "validate-tests"}
    ELSE {"generate-docs"}

Argvs ==
    {<<>>, <<"bogus">>} \cup {<<c>> : c \in AllCommands}
        \cup {<<c, "proj">> : c \in AllCommands}

\* parser.parse_args(): no argument leaves command None; a name that is no
\* registered command, or a command without its project_path, is an argparse
\* error (usage and message on stderr, exit status 2).
parse_args(tool, argv) ==
    IF argv = <<>> THEN [status |-> "ok", command |-> "None"]
    ELSE IF argv[1] \notin SubCommands(tool)
        THEN [status |-> "error", command |-> "invalid choice"]
    ELSE IF Len(argv) # 2
        THEN [status |-> "error", command |-> "missing argument"]
    ELSE [status |-> "ok", command |-> argv[1]]

Init ==
    /\ text = <<>>
    /\ once = <<>>
    /\ twice = <<>>
    /\ cpc = "off"
    /\ \/ \E tree \in SUBSET Candidates :
            /\ fs = [f \in tree |-> SourceText(f)]
            /\ dirs = {"."} \cup {f.dir : f \in tree}
       \/ fs = <<>> /\ dirs = {}
    /\ pc = "idle"
    /\ run = NoRun
    /\ nruns = 0
    /\ fs0 = fs
    /\ dirs0 = dirs
    /\ pending = {}
    /\ dirsLeft = {}
    /\ summary = <<>>
    /\ log = NoEvents
    /\ faults = 0
    /\ exitStatus = -1

\* A new process is started with the given arguments.  cli.py and markd.py are
\* two programs; a behaviour runs one of them, again and again.
StartProcess(tool, argv) ==
    /\ pc \in {"idle", "done"}
    /\ run.tool \in {"none", tool}
    /\ nruns < MaxRuns
    /\ nruns' = nruns + 1
    /\ run' = [tool |-> tool, command |-> parse_args(tool, argv).command]
    /\ fs0' = fs
    /\ dirs0' = dirs
    /\ UNCHANGED cleanVars

\* main(): argparse rejects the arguments and exits.
MainParseError ==
    \E tool \in Tools, argv \in Argvs :
        /\ parse_args(tool, argv).status = "error"
        /\ StartProcess(tool, argv)
        /\ log' = Logged(NoEvents,
                <<E0("usage_error", parse_args(tool, argv).command, NoFile, FALSE)>>)
        /\ pc' = "done"
        /\ exitStatus' = 2
        /\ summary' = <<>>
        /\ UNCHANGED <<fs, dirs, pending, dirsLeft, faults>>

\* main(): no command, the else branch prints the help.
MainPrintHelp ==
    \E tool \in Tools, argv \in Argvs :
        /\ parse_args(tool, argv) = [status |-> "ok", command |-> "None"]
        /\ StartProcess(tool, argv)
        /\ log' = Logged(NoEvents, <<E0("help", "print_help", NoFile, TRUE)>>)
        /\ pc' = "done"
        /\ exitStatus' = 0
        /\ summary' = <<>>
        /\ UNCHANGED <<fs, dirs, pending, dirsLeft, faults>>

\* main() -> generate_tests_cli / generate_docs_cli, up to the first listing
\* of os.walk in process_project.
StartWalk(tool, command, handler, argv) ==
        /\ parse_args(tool, argv) = [status |-> "ok", command |-> command]
        /\ StartProcess(tool, argv)
        /\ IF ~PathExists(".")
           THEN /\ log' = Logged(NoEvents,
                            <<E0("handler", handler, NoFile, TRUE),
                              E0("error", "path does not exist", NoFile, FALSE)>>)
                /\ pc' = "done"
                /\ exitStatus' = 0
                /\ summary' = <<>>
                /\ UNCHANGED <<pending, dirsLeft>>
           ELSE /\ log' = Logged(NoEvents,
                            <<E0("handler", handler, NoFile, TRUE)>>)
                /\ pc' = "walk"
                /\ exitStatus' = -1
                /\ pending' = ListFiles(".")
                /\ dirsLeft' = SubDirs
                /\ summary' = IF command = "generate-docs"
                              THEN <<Block("dir", Name(0, ".", ""))>>
                              ELSE <<>>
        /\ UNCHANGED <<fs, dirs, faults>>

MainGenerateTests ==
    \E argv \in Argvs :
        /\ argv # <<>>
        /\ StartWalk("cli", "generate-tests", "generate_tests_cli", argv)

MainGenerateDocs ==
    \E argv \in Argvs :
        /\ argv # <<>>
        /\ StartWalk("markd", "generate-docs", "generate_docs_cli", argv)

\* A plausible slip: the model call's exception is not caught around the call.
EscapesModelFailure(r, m, w) == ~m

\* Whether a failure of one loop body leaves process_project.  It never does:
\* a failed read is caught by the loop body's except, a failed model call by
\* generate_test_cases / generate_markdown_document (which return "Error: ..."),
\* a failed write by save_test_cases.
Escapes(r, m, w) == FALSE

\* generate_test_cases: the cleaned answer, or the text "Error: <e>".
generate_test_cases(m, name) ==
    IF m THEN <<Block("tests", name)>> ELSE <<Block("error", NoName)>>

\* generate_markdown_document: "### <file_name>" and the cleaned answer, or the
\* text "Error: <e>" alone.
generate_markdown_document(m, name) ==
    IF m THEN Block("section", name) ELSE Block("error", NoName)

\* An exception reaches the except clause of generate_tests_cli /
\* generate_docs_cli: one error is logged and the command returns.
Abort(events) ==
    /\ log' = Logged(log,
                  events \o <<E("error", "command failed", NoFile, FALSE)>>)
    /\ pc' = "done"
    /\ exitStatus' = 0
    /\ pending' = {}
    /\ dirsLeft' = {}

\* cli.process_project: one iteration of "for file in files".
ProcessFileTests ==
    /\ pc = "walk"
    /\ run.command = "generate-tests"
    /\ \E f \in pending, r \in BOOLEAN, m \in BOOLEAN, w \in BOOLEAN :
        /\ ~IsSource(f) => r /\ m /\ w
        /\ ~r => m /\ w
        /\ faults + Failures(<<r, m, w>>) <= MaxFaults
        /\ faults' = faults + Failures(<<r, m, w>>)
        /\ IF ~IsSource(f)
           THEN /\ log' = Logged(log, <<E("visit", "skip", f, TRUE)>>)
                /\ pending' = pending \ {f}
                /\ UNCHANGED <<fs, dirs, pc, exitStatus, dirsLeft>>
           ELSE IF ~r
           THEN /\ log' = Logged(log, <<E("visit", "process", f, TRUE),
                                          E("read", "open", f, FALSE),
                                          E("error", "processing", f, FALSE)>>)
                /\ pending' = pending \ {f}
                /\ UNCHANGED <<fs, dirs, pc, exitStatus, dirsLeft>>
           ELSE IF Escapes(r, m, w)
           THEN /\ Abort(<<E("visit", "process", f, TRUE),
                           E("read", "open", f, TRUE),
                           E("model", "tests", f, m)>>)
                /\ UNCHANGED <<fs, dirs>>
           ELSE /\ log' = Logged(log,
                        <<E("visit", "process", f, TRUE),
                          E("read", "open", f, TRUE),
                          E("model", "tests", f, m)>>
                        \o (IF m THEN <<>>
                            ELSE <<E("error", "generating", f, FALSE)>>)
                        \o <<E("mkdir", "tests", NoFile, TRUE),
                             E("write", "tests", TestFile(f), w)>>
                        \o (IF w THEN <<>>
                            ELSE <<E("error", "saving", f, FALSE)>>))
                /\ dirs' = dirs \cup {".", "tests"}
                /\ fs' = IF w THEN Written(TestFile(f),
                                           generate_test_cases(m, f.name))
                         ELSE fs
                /\ pending' = pending \ {f}
                /\ UNCHANGED <<pc, exitStatus, dirsLeft>>
    /\ UNCHANGED <<run, nruns, fs0, dirs0, summary>>
    /\ UNCHANGED cleanVars

\* markd.process_project: one iteration of "for file in files".
ProcessFileDocs ==
    /\ pc = "walk"
    /\ run.command = "generate-docs"
    /\ \E f \in pending, r \in BOOLEAN, m \in BOOLEAN :
        /\ ~IsSource(f) => r /\ m
        /\ ~r => m
        /\ faults + Failures(<<r, m>>) <= MaxFaults
        /\ faults' = faults + Failures(<<r, m>>)
        /\ IF ~IsSource(f)
           THEN /\ log' = Logged(log, <<E("visit", "skip", f, TRUE)>>)
                /\ pending' = pending \ {f}
                /\ UNCHANGED <<pc, exitStatus, dirsLeft, summary>>
           ELSE IF ~r
           THEN /\ log' = Logged(log, <<E("visit", "process", f, TRUE),
                                          E("read", "open", f, FALSE),
                                          E("error", "processing", f, FALSE)>>)
                /\ pending' = pending \ {f}
                /\ UNCHANGED <<pc, exitStatus, dirsLeft, summary>>
           ELSE IF Escapes(r, m, TRUE)
           THEN /\ Abort(<<E("visit", "process", f, TRUE),
                           E("read", "open", f, TRUE),
                           E("model", "docs", f, m)>>)
                /\ UNCHANGED summary
           ELSE /\ log' = Logged(log,
                        <<E("visit", "process", f, TRUE),
                          E("read", "open", f, TRUE),
                          E("model", "docs", f, m)>>
                        \o (IF m THEN <<>>
                            ELSE <<E("error", "generating", f, FALSE)>>))
                /\ summary' = Append(summary,
                                     generate_markdown_document(m, f.name))
                /\ pending' = pending \ {f}
                /\ UNCHANGED <<pc, exitStatus, dirsLeft>>
    /\ UNCHANGED <<fs, dirs, run, nruns, fs0, dirs0>>
    /\ UNCHANGED cleanVars

\* os.walk resumes: the files of the listing are exhausted and the next
\* sub-directory is listed, as it is at that moment.
WalkDir ==
    /\ pc = "walk"
    /\ pending = {}
    /\ \E d \in dirsLeft :
        /\ pending' = ListFiles(d)
        /\ dirsLeft' = dirsLeft \ {d}
        /\ summary' = IF run.command = "generate-docs"
                      THEN Append(summary, Block("dir", Name(0, d, "")))
                      ELSE summary
    /\ UNCHANGED <<fs, dirs, pc, run, nruns, fs0, dirs0, log, faults,
                   exitStatus>>
    /\ UNCHANGED cleanVars

\* create_pytest_ini_with_llm, called when process_project has returned.
CreatePytestIni ==
    /\ pc = "walk"
    /\ run.command = "generate-tests"
    /\ pending = {}
    /\ dirsLeft = {}
    /\ \E m \in BOOLEAN, w \in BOOLEAN :
        /\ ~m => w
        /\ ~PathExists("tests") => w
        /\ faults + Failures(<<m, w>>) <= MaxFaults
        /\ faults' = faults + Failures(<<m, w>>)
        /\ LET opened == w /\ PathExists("tests")
           IN  /\ log' = Logged(log,
                        <<E("model", "ini", NoFile, m)>>
                        \o (IF m THEN <<E("write", "ini", IniFile, opened)>>
                            ELSE <<>>)
                        \o (IF m /\ opened THEN <<>>
                            ELSE <<E("error", "creating pytest.ini", NoFile, FALSE)>>))
               /\ fs' = IF m /\ opened
                        THEN Written(IniFile, <<Block("ini", NoName)>>)
                        ELSE fs
    /\ pc' = "done"
    /\ exitStatus' = 0
    /\ UNCHANGED <<dirs, run, nruns, fs0, dirs0, pending, dirsLeft,
                   summary>>
    /\ UNCHANGED cleanVars

\* save_markdown_document, the last statement of markd.process_project.
SaveMarkdownDocument ==
    /\ pc = "walk"
    /\ run.command = "generate-docs"
    /\ pending = {}
    /\ dirsLeft = {}
    /\ \E w \in BOOLEAN :
        /\ faults + Failures(<<w>>) <= MaxFaults
        /\ faults' = faults + Failures(<<w>>)
        /\ log' = Logged(log,
                <<E("mkdir", "docs", NoFile, TRUE),
                  E("write", "docs", DocFile, w)>>
                \o (IF w THEN <<>> ELSE <<E("error", "saving", NoFile, FALSE)>>))
        /\ fs' = IF w THEN Written(DocFile, summary) ELSE fs
    /\ dirs' = dirs \cup {".", "docs"}
    /\ pc' = "done"
    /\ exitStatus' = 0
    /\ UNCHANGED <<run, nruns, fs0, dirs0, pending, dirsLeft, summary>>
    /\ UNCHANGED cleanVars

\* main() -> validate_tests_cli -> validate_tests: pytest runs as a
\* subprocess; its output is printed, its return code is not propagated.
MainValidateTests ==
    \E argv \in Argvs :
        /\ parse_args("cli", argv) = [status |-> "ok", command |-> "validate-tests"]
        /\ StartProcess("cli", argv)
        /\ IF ~PathExists("tests")
           THEN /\ log' = Logged(NoEvents,
                    <<E0("handler", "validate_tests_cli", NoFile, TRUE),
                      E0("error", "tests folder does not exist", NoFile, FALSE)>>)
                /\ UNCHANGED faults
           ELSE \E s \in BOOLEAN, rc \in {0, 1}, err \in BOOLEAN :
                /\ ~s => rc = 0 /\ ~err
                /\ faults + Failures(<<s>>) <= MaxFaults
                /\ faults' = faults + Failures(<<s>>)
                /\ log' = Logged(NoEvents,
                    <<E0("handler", "validate_tests_cli", NoFile, TRUE),
                      E0("subprocess", "pytest", NoFile, s)>>
                    \o (IF s THEN <<E0("print", "stdout", NoFile, rc = 0)>>
                        ELSE <<E0("error", "validating", NoFile, FALSE)>>)
                    \o (IF err THEN <<E0("print", "stderr", NoFile, rc = 0)>>
                        ELSE <<>>))
        /\ pc' = "done"
        /\ exitStatus' = 0
        /\ summary' = <<>>
        /\ UNCHANGED <<fs, dirs, pending, dirsLeft>>

Next ==
    \/ MainParseError
    \/ MainPrintHelp
    \/ MainGenerateTests
    \/ MainValidateTests
    \/ MainGenerateDocs
    \/ ProcessFileTests
    \/ ProcessFileDocs
    \/ WalkDir
    \/ CreatePytestIni
    \/ SaveMarkdownDocument

Spec == Init /\ [][Next]_vars

(***************************************************************************)
(* Claims about the commands.  The predicates below read the log; they    *)
(* spell out the ".py" test and the artifact names themselves.             *)
(***************************************************************************)
EndsWithPy(f) == f.name.ext = "py"

Events(ev) == {e \in DOMAIN log : e.ev = ev}

Errors == Total(log, Events("error"))

Visits(f) == Total(log, {e \in Events("visit") : e.f = f})

Processed == {e.f : e \in {x \in Events("visit") : x.what = "process"}}

Skipped == {e.f : e \in {x \in Events("visit") : x.what = "skip"}}

ReadOk(f) == \E e \in Events("read") : e.f = f /\ e.ok

ModelCalls(f) ==
    Total(log, {e \in Events("model") : e.f = f /\ e.what # "ini"})

IniCalls == Total(log, {e \in Events("model") : e.what = "ini"})

WalkCommand == run.command \in {"generate-tests", "generate-docs"}

\* The process has finished a command whose project path existed.
Finished(command) ==
    pc = "done" /\ run.command = command /\ "." \in dirs0

\* C3: a command given a project path that does not exist calls no model,
\* starts no subprocess, reads and writes nothing, leaves the file system as
\* it was and logs exactly one error.
C3_MissingPathNoEffect ==
    (pc = "done" /\ run.command \in AllCommands /\ "." \notin dirs0) =>
        /\ fs = fs0
        /\ dirs = dirs0
        /\ \A e \in DOMAIN log : e.ev \in {"handler", "error"}
        /\ Errors = 1

\* C3 witness: validate-tests has returned on a missing project path.
C3_Witness ==
    /\ pc = "done"
    /\ run.command = "validate-tests"
    /\ "." \notin dirs0
    /\ Errors = 1

\* The names of the files under tests/ in a file system.
TestsNames(files) == {f.name : f \in {g \in DOMAIN files : g.dir = "tests"}}

\* The per-file artifacts the running process has written.
Artifacts == {e.f : e \in {x \in Events("write") : x.what = "tests" /\ x.ok}}

\* C4: after a generate-tests run without a failure that processed at least
\* one source file, tests/ exists and holds one artifact test_<base>.py for
\* each processed file: as many artifacts as processed files.
C4_OneArtifactPerFile ==
    (Finished("generate-tests") /\ faults = 0 /\ Processed # {}) =>
        /\ "tests" \in dirs
        /\ \A f \in Processed :
              File("tests", f.name.pre + 1, f.name.base, "py") \in DOMAIN fs
        /\ Cardinality(Artifacts) = Cardinality(Processed)

\* C5: an unknown command name, or no command, prints the help and exits with
\* status 0 and without an error message; a known command with a project path
\* calls the handler of that command once.
C5_UnknownPrintsHelp ==
    pc = "done" =>
        /\ run.command \in {"None", "invalid choice"} =>
              /\ Total(log, Events("help")) = 1
              /\ Events("usage_error") = {}
              /\ Events("error") = {}
              /\ exitStatus = 0
        /\ run.command \in AllCommands =>
              /\ Total(log, Events("handler")) = 1
              /\ \A e \in Events("handler") :
                    e.what = CASE run.command = "generate-tests" -> "generate_tests_cli"
                               [] run.command = "validate-tests" -> "validate_tests_cli"
                               [] run.command = "generate-docs" -> "generate_docs_cli"

\* The blocks of a document that are not directory headings.
FileBlocks(doc) == SelectSeq(doc, LAMBDA b : b.kind # "dir")

\* C6: when a model call has failed in a generate-tests or generate-docs run,
\* the traversal still goes through every source file of the tree; each of
\* them is read, and each one that could be read is sent to the model once and
\* has its artifact produced (its test file written unless that write itself
\* fails, its block added to the document).
C6_FailureDoesNotStopLaterFiles ==
    (pc = "done" /\ WalkCommand /\ "." \in dirs0 /\ ModelFailed) =>
        /\ \A f \in DOMAIN fs0 : EndsWithPy(f) =>
              /\ Visits(f) = 1
              /\ \E e \in Events("read") : e.f = f
              /\ ReadOk(f) => ModelCalls(f) = 1
        /\ run.command = "generate-tests" =>
              \A f \in Processed : ReadOk(f) =>
                  LET target == File("tests", f.name.pre + 1, f.name.base, "py")
                  IN  /\ \E e \in Events("write") : e.f = target
                      /\ (\A e \in Events("write") : e.f = target => e.ok)
                            => target \in DOMAIN fs
        /\ run.command = "generate-docs" =>
              /\ Len(FileBlocks(summary)) = Cardinality({f \in Processed : ReadOk(f)})
              /\ \A e \in Events("write") : e.ok => fs[e.f] = summary

\* C6 witness: a generate-tests run in which the model call for pkg/a.py
\* failed and lib/a.py, visited after that failure, was sent to the model and
\* had its test file written.
C6_Witness ==
    /\ pc = "done"
    /\ run.command = "generate-tests"
    /\ Ev("model", "tests", File("pkg", 0, "a", "py"), FALSE, FALSE) \in DOMAIN log
    /\ Ev("visit", "process", File("lib", 0, "a", "py"), TRUE, TRUE) \in DOMAIN log
    /\ Ev("model", "tests", File("lib", 0, "a", "py"), TRUE, TRUE) \in DOMAIN log
    /\ Ev("write", "tests", File("tests", 1, "a", "py"), TRUE, TRUE) \in DOMAIN log
    /\ fs[File("tests", 1, "a", "py")] = <<Block("tests", Name(0, "a", "py"))>>

\* C7: every generate-tests run on an existing project path writes
\* tests/pytest.ini with one further model call, and not before the per-file
\* artifacts are written (no pytest.ini call or write while the traversal is
\* still going on).
C7_AlwaysWritesIni ==
    /\ pc = "walk" => IniCalls = 0 /\ {e \in Events("write") : e.what = "ini"} = {}
    /\ (Finished("generate-tests") /\ faults = 0) =>
          /\ IniCalls = 1
          /\ File("tests", 0, "pytest", "ini") \in DOMAIN fs
          /\ \E e \in Events("write") : e.what = "ini" /\ e.ok

\* What C8 says of every run of a traversal, but for the number of model calls.
TraversalFilters ==
    /\ \A f \in DOMAIN fs0 : Visits(f) = 1
    /\ \A e \in Events("visit") : Visits(e.f) = 1
    /\ \A f \in Processed : EndsWithPy(f)
    /\ \A f \in Skipped :
          /\ ~EndsWithPy(f)
          /\ \A e \in DOMAIN log :
                e.f = f => e.ev \notin {"read", "model", "error"}
    /\ \A e \in Events("model") : e.what # "ini" => e.f \in Processed
    /\ Total(log, {e \in Events("write") : e.what = "tests"})
          = IF run.command = "generate-tests"
            THEN Cardinality({f \in Processed : ReadOk(f)})
            ELSE 0
    /\ \A e \in Events("error") : e.f # NoFile => e.f \in Processed

\* C8 as stated: the traversal visits every file of the tree exactly once,
\* forwards exactly the .py files, with one model call for each of them, and
\* skips every other file without a model call, a write or an error.
C8_OneCallPerPyFile ==
    (pc = "done" /\ WalkCommand /\ "." \in dirs0) =>
        /\ TraversalFilters
        /\ \A f \in Processed : ModelCalls(f) = 1

\* C8 amended: the traversal visits every file of the tree exactly once,
\* forwards exactly the .py files, with one model call for each of them that
\* could be read and none for one whose read failed, and skips every other
\* file without a model call, a write or an error.
C8_TraversalFilters ==
    (pc = "done" /\ WalkCommand /\ "." \in dirs0) =>
        /\ TraversalFilters
        /\ \A f \in Processed : ModelCalls(f) = IF ReadOk(f) THEN 1 ELSE 0

\* C8 witness: a finished traversal that skipped n.txt and sent both a.py to
\* the model.
C8_Witness ==
    /\ pc = "done"
    /\ WalkCommand
    /\ Skipped = {File(".", 0, "n", "txt")}
    /\ Processed = {File("pkg", 0, "a", "py"), File("lib", 0, "a", "py")}
    /\ \A f \in Processed : ModelCalls(f) = 1

\* The file the step from the unprimed to the primed state takes off the
\* listing.
Taken == CHOOSE f \in pending : f \notin pending'

\* C9: a generate-docs run adds to the document a section headed with the
\* file's name for each .py file it reads, at the moment the file is traversed,
\* also when the model call fails; the document it writes to
\* docs/project_documentation.md is made of these sections, one for each
\* .py file.
C9_OneSectionPerFile ==
    [][ /\ ( /\ pc = "walk"
             /\ run.command = "generate-docs"
             /\ pending' # pending
             /\ pending # {}
             /\ EndsWithPy(Taken)
             /\ Total(log', {e \in DOMAIN log' : e.ev = "read" /\ ~e.ok})
                  = Total(log, {e \in DOMAIN log : e.ev = "read" /\ ~e.ok}) )
            => summary' = Append(summary, Block("section", Taken.name))
        /\ ( /\ pc = "walk"
             /\ pc' = "done"
             /\ run.command = "generate-docs"
             /\ File("docs", 0, "project_documentation", "md") \in DOMAIN fs' )
            => /\ fs'[File("docs", 0, "project_documentation", "md")] = summary
               /\ \A b \in {summary[i] : i \in 1..Len(summary)} :
                     b.kind \in {"dir", "section"}
      ]_vars

\* C10: a generate-tests run that follows an earlier one (tests/ is only made
\* by generate-tests, so it existed when the run started), none of them with a
\* failure, leaves under tests/ the file names that were there before it.
C10_RerunKeepsNames ==
    (Finished("generate-tests") /\ "tests" \in dirs0 /\ faults = 0) =>
        TestsNames(fs) = TestsNames(fs0)

====
